---- MODULE Spec2Model ----
(***************************************************************************)
(* A model of the tbl backend: the suppression engine                      *)
(* (app/core/suppression.py), the differential-privacy engine              *)
(* (app/core/differential_privacy.py), the command parser                  *)
(* (app/core/parser.py), the query engine (app/core/query_engine.py) and  *)
(* the query route (app/api/routes.py).                                    *)
(*                                                                         *)
(* Each component has a specification of its own: SpecSupp, SpecEps,       *)
(* SpecDP, SpecParse, SpecQuery (SpecFilter: the same steps on filters of  *)
(* three operands), SpecApi (a request to /query), SpecTable (a two-way    *)
(* create_frequency_table) and SpecLoader (the dataset cache of            *)
(* app/utils/data_loader.py); the variables of the other components stay   *)
(* at their idle values.                                                   *)
(***************************************************************************)
EXTENDS Integers, Sequences, FiniteSets, TLC

VARIABLES
    \* ---- SuppressionEngine.apply_suppression
    sup_pc,         \* position inside apply_suppression
    application,    \* 1: first call, 2: the call on the first call's output
    df,             \* the table handed to apply_suppression
    numeric_df,     \* the working copy (numbers and NaN)
    after_primary,  \* numeric_df as _apply_primary_suppression returned it
    after_rows,     \* numeric_df after the row loop of the complementary step
    result_df,      \* the table apply_suppression returns (strings)
    first_result,   \* result_df of the first call
    crosstab,       \* the true counts the first call was given
    two_way,        \* TRUE: pd.crosstab with margins, FALSE: value_counts
    \* ---- DifferentialPrivacyEngine._calculate_dynamic_epsilon
    base_epsilon,   \* self.base_epsilon, in thousandths
    total_size,     \* the total_size the calls are made with
    eps_calls,      \* the calls made: <<[subset_size, epsilon], ...>>
    \* ---- DifferentialPrivacyEngine.apply_differential_privacy
    dp_pc,          \* position inside apply_differential_privacy
    dp_columns,     \* df.columns: the label of each column
    dp_df,          \* the table of counts handed in
    dp_sizes,       \* <<subset_size, total_size>> handed in
    epsilon,        \* the epsilon of the call, in thousandths
    dp_col,         \* the loop index: the next column
    noise,          \* per column, the samples drawn for it (<<>>: none drawn)
    dp_result,      \* result: the table returned
    \* ---- StataParser.parse
    command,        \* the command, as the tokens the lexer cuts it into
    parsed,         \* what parse returned or raised (NotParsed before the call)
    \* ---- QueryEngine.execute_query
    q_pc,           \* position inside execute_query
    dataset,        \* df: the rows of the dataset (its columns: QueryColumns)
    privacy_mode,   \* the privacy_mode argument
    filtered_df,    \* the rows left after the filter
    engine_call,    \* the create_frequency_table call made (NoCall: none)
    response,       \* what execute_query returned or raised
    \* ---- QueryResource.post (api/routes.py) and the DataLoader cache
    api_pc,         \* position inside post
    request,        \* the request: its JSON body
    cache,          \* the datasets cached, by dataset key
    http,           \* the HTTP response of post (NoResponse before it)
    \* ---- DataLoader (utils/data_loader.py)
    current_dataset_key, \* self.current_dataset_key
    current_dataset,     \* self.current_dataset
    loader_result,  \* what the last call of a DataLoader method returned or raised
    cache_log,      \* the calls that returned after writing or clearing the cache
    \* ---- create_frequency_table of either engine, two-way
    t_pc,           \* position inside create_frequency_table
    t_engine,       \* the engine: "suppression" or "differential_privacy"
    t_cats,         \* <<categories of var1, categories of var2>> in the data
    t_counts,       \* the number of rows of the data per pair of categories
    t_noise,        \* which samples np.random.laplace returns
    t_index,        \* the row labels of the cross-tabulation
    t_columns,      \* the column labels of the cross-tabulation
    t_wide,         \* the cross-tabulation, then the protected one
    t_long          \* result: the long format, or what was raised

supVars == <<sup_pc, application, df, numeric_df, after_primary, after_rows,
             result_df, first_result, crosstab, two_way>>
epsVars == <<base_epsilon, total_size, eps_calls>>
dpVars == <<dp_pc, dp_columns, dp_df, dp_sizes, epsilon, dp_col, noise, dp_result>>

parseVars == <<command, parsed>>

queryVars == <<q_pc, dataset, privacy_mode, filtered_df, engine_call, response>>

loaderVars == <<current_dataset_key, current_dataset, loader_result, cache_log>>

apiVars == <<api_pc, request, cache, http, loaderVars>>

tableVars == <<t_pc, t_engine, t_cats, t_counts, t_noise, t_index, t_columns,
               t_wide, t_long>>

vars == <<supVars, epsVars, dpVars, parseVars, queryVars, apiVars, tableVars>>

(***************************************************************************)
(* Bounds of the model.                                                    *)
(***************************************************************************)
\* a two-way table has at most MaxCells cells besides its margins
MaxCells == 8
\* a one-way table has at most MaxOneWay categories
MaxOneWay == 4
\* the counts a cell of a two-way table of n cells is drawn from: an empty
\* cell, counts below the threshold, counts at and above it; the smaller the
\* table, the more counts
CellCounts(n) ==
    IF n <= 4 THEN {0, 1, 2, 4, 5, 6, 10}
    ELSE IF n <= 6 THEN {0, 2, 5, 8}
    ELSE {0, 3, 5}
\* the counts of a one-way table (value_counts never reports 0)
OneWayCounts == {1, 4, 5, 6, 9}

(***************************************************************************)
(* Tables.  A table is a sequence of rows, a row a sequence of cells.      *)
(* A numeric cell is a number or NaN; a cell of a string table is the      *)
(* text of an integer ("12"), the text of a float ("12.0") or "<5".        *)
(***************************************************************************)
NaN == [na |-> TRUE, v |-> 0]
Num(n) == [na |-> FALSE, v |-> n]

Int64(n) == [fmt |-> "int", v |-> n]
Float64(n) == [fmt |-> "float", v |-> n]
suppression_value == [fmt |-> "<5", v |-> 0]

NRows(t) == Len(t)
NCols(t) == IF Len(t) = 0 THEN 0 ELSE Len(t[1])

RECURSIVE SumSeq(_)
SumSeq(s) == IF Len(s) = 0 THEN 0 ELSE Head(s) + SumSeq(Tail(s))

\* pd.crosstab(..., margins=True, margins_name='Total'): the counts, a last
\* column of row sums, a last row of column sums
Crosstab(inner) ==
    LET r == Len(inner)
        c == Len(inner[1])
        RowSum(i) == SumSeq(inner[i])
        ColSum(j) == SumSeq([i \in 1..r |-> inner[i][j]])
    IN  [i \in 1..(r + 1) |->
            [j \in 1..(c + 1) |->
                IF i <= r /\ j <= c THEN Int64(inner[i][j])
                ELSE IF i <= r THEN Int64(RowSum(i))
                ELSE IF j <= c THEN Int64(ColSum(j))
                ELSE Int64(SumSeq([k \in 1..r |-> RowSum(k)]))]]

\* df[var1].value_counts().to_frame('freq'): one column, no margins
ValueCounts(counts) == [i \in 1..Len(counts) |-> <<Int64(counts[i])>>]

\* pd.to_numeric(result[col], errors='coerce')
to_numeric(cell) == IF cell.fmt = "<5" THEN NaN ELSE Num(cell.v)

(***************************************************************************)
(* SuppressionEngine                                                       *)
(***************************************************************************)
SuppressionThreshold == 5

\* the mask as (result < 5) & (result > 1)
PrimaryCell_AboveOne(cell) ==
    LET x == to_numeric(cell)
    IN  IF ~x.na /\ x.v < SuppressionThreshold /\ x.v > 1 THEN NaN ELSE x

PrimaryCell(cell) ==
    LET x == to_numeric(cell)
    IN  IF ~x.na /\ x.v < SuppressionThreshold /\ x.v > 0 THEN NaN ELSE x

_apply_primary_suppression(t) ==
    [i \in 1..NRows(t) |-> [j \in 1..NCols(t) |-> PrimaryCell(t[i][j])]]

\* row.isna().sum() of a sequence of numeric cells
isna_sum(line) == Cardinality({k \in 1..Len(line) : line[k].na})

\* index[0] in place of index[-1]: the smallest cell
nsmallest2_first(line) ==
    LET S == {k \in 1..Len(line) : ~line[k].na}
        Before(q, p) == \/ line[q].v < line[p].v
                        \/ line[q].v = line[p].v /\ q < p
    IN  CHOOSE p \in S : Cardinality({q \in S : Before(q, p)}) = 0

\* keep='last': equal values in the reverse order of their positions
nsmallest2_KeepLast(line) ==
    LET S == {k \in 1..Len(line) : ~line[k].na}
        Before(q, p) == \/ line[q].v < line[p].v
                        \/ line[q].v = line[p].v /\ q > p
    IN  CHOOSE p \in S : Cardinality({q \in S : Before(q, p)}) = 1

\* non_suppressed.nsmallest(2).index[-1]: the position that comes second when
\* the cells that are not NaN are put in ascending order, equal values in the
\* order of their positions (keep='first')
nsmallest2_last(line) ==
    LET S == {k \in 1..Len(line) : ~line[k].na}
        Before(q, p) == \/ line[q].v < line[p].v
                        \/ line[q].v = line[p].v /\ q < p
    IN  CHOOSE p \in S : Cardinality({q \in S : Before(q, p)}) = 1

\* the test as suppressed_cells >= 1
ComplementaryLine_AnySuppressed(line) ==
    IF isna_sum(line) >= 1
    THEN IF Cardinality({k \in 1..Len(line) : ~line[k].na}) > 1
         THEN [line EXCEPT ![nsmallest2_last(line)] = NaN]
         ELSE line
    ELSE line

\* the test as len(non_suppressed) > 2
ComplementaryLine_ThreeVisible(line) ==
    IF isna_sum(line) = 1
    THEN IF Cardinality({k \in 1..Len(line) : ~line[k].na}) > 2
         THEN [line EXCEPT ![nsmallest2_last(line)] = NaN]
         ELSE line
    ELSE line

\* one iteration of either loop, on the cells of one row or one column
ComplementaryLine(line) ==
    IF isna_sum(line) = 1
    THEN IF Cardinality({k \in 1..Len(line) : ~line[k].na}) > 1
         THEN [line EXCEPT ![nsmallest2_last(line)] = NaN]
         ELSE line
    ELSE line

Column(t, j) == [i \in 1..NRows(t) |-> t[i][j]]

\* for idx in range(len(result)): ...
RECURSIVE RowLoop(_, _)
RowLoop(t, idx) ==
    IF idx > NRows(t) THEN t
    ELSE RowLoop([t EXCEPT ![idx] = ComplementaryLine(t[idx])], idx + 1)

\* the loop over the columns followed by a second loop over the rows
ColumnLoop_RowsAgain(t, col) ==
    RowLoop([i \in 1..NRows(t) |->
                [j \in 1..NCols(t) |-> ComplementaryLine(Column(t, j))[i]]], 1)

\* for col in result.columns: ...
RECURSIVE ColumnLoop(_, _)
ColumnLoop(t, col) ==
    IF col > NCols(t) THEN t
    ELSE LET line == ComplementaryLine(Column(t, col))
         IN  ColumnLoop([i \in 1..NRows(t) |-> [t[i] EXCEPT ![col] = line[i]]],
                        col + 1)

_apply_complementary_suppression(t) == ColumnLoop(RowLoop(t, 1), 1)

\* result_df[col].apply(lambda x: int(x) if notna(x) ... else x), .astype(str),
\* .replace('nan', '<5'): apply() gives an int64 column when every cell became
\* an int, and a float64 column when a NaN is left among them
FormatColumn(line) ==
    LET hasNaN == \E k \in 1..Len(line) : line[k].na
    IN  [k \in 1..Len(line) |->
            IF line[k].na THEN suppression_value
            ELSE IF hasNaN THEN Float64(line[k].v) ELSE Int64(line[k].v)]

FormatTable(t) ==
    [i \in 1..NRows(t) |-> [j \in 1..NCols(t) |-> FormatColumn(Column(t, j))[i]]]

(***************************************************************************)
(* The tables apply_suppression is called on by create_frequency_table.    *)
(***************************************************************************)
Shapes == {s \in (1..MaxCells) \X (1..MaxCells) : s[1] * s[2] <= MaxCells}

\* every category of the cross-tabulation was seen in the data
Observed(inner) ==
    /\ \A i \in 1..Len(inner) : SumSeq(inner[i]) > 0
    /\ \A j \in 1..Len(inner[1]) :
            SumSeq([i \in 1..Len(inner) |-> inner[i][j]]) > 0

TwoWayInputs ==
    UNION {{inner \in [1..s[1] -> [1..s[2] -> CellCounts(s[1] * s[2])]] : Observed(inner)}
           : s \in Shapes}

\* value_counts sorts by count, largest first
OneWayInputs ==
    UNION {{c \in [1..n -> OneWayCounts] : \A i \in 1..(n - 1) : c[i] >= c[i + 1]}
           : n \in 1..MaxOneWay}

SuppIdle ==
    /\ sup_pc = "idle" /\ application = 0 /\ df = <<>> /\ numeric_df = <<>>
    /\ after_primary = <<>> /\ after_rows = <<>> /\ result_df = <<>>
    /\ first_result = <<>> /\ crosstab = <<>> /\ two_way = FALSE

EpsIdle == base_epsilon = 0 /\ total_size = 0 /\ eps_calls = <<>>

DPIdle ==
    /\ dp_pc = "idle" /\ dp_columns = <<>> /\ dp_df = <<>> /\ dp_sizes = <<>>
    /\ epsilon = 0 /\ dp_col = 0 /\ noise = <<>> /\ dp_result = <<>>

NotParsed == [pending |-> TRUE]

ParseIdle == command = <<>> /\ parsed = NotParsed

NoCall == [engine |-> "none"]
NoResponse == [pending |-> TRUE]

QueryIdle ==
    /\ q_pc = "idle" /\ dataset = <<>> /\ privacy_mode = "" /\ filtered_df = <<>>
    /\ engine_call = NoCall /\ response = NoResponse

NoRequest == [body |-> "none"]
NoCache == <<>>

\* None, as the value of a field of the DataLoader
PyNone == [none |-> TRUE]

LoaderIdle ==
    /\ current_dataset_key = PyNone /\ current_dataset = PyNone
    /\ loader_result = NoResponse /\ cache_log = <<>>

ApiIdle ==
    /\ api_pc = "idle" /\ request = NoRequest /\ cache = NoCache /\ http = NoResponse
    /\ LoaderIdle

TableIdle ==
    /\ t_pc = "idle" /\ t_engine = "" /\ t_cats = <<>> /\ t_counts = <<>>
    /\ t_noise = 0 /\ t_index = <<>> /\ t_columns = <<>> /\ t_wide = <<>>
    /\ t_long = <<>>

InitSupp ==
    /\ EpsIdle /\ DPIdle /\ ParseIdle /\ QueryIdle /\ ApiIdle /\ TableIdle
    /\ sup_pc = "start"
    /\ application = 1
    /\ \/ /\ two_way = TRUE
          /\ \E inner \in TwoWayInputs : df = Crosstab(inner)
       \/ /\ two_way = FALSE
          /\ \E c \in OneWayInputs : df = ValueCounts(c)
    /\ crosstab = df
    /\ numeric_df = <<>>
    /\ after_primary = <<>>
    /\ after_rows = <<>>
    /\ result_df = <<>>
    /\ first_result = <<>>

\* numeric_df = self._apply_primary_suppression(numeric_df)
PrimarySuppression ==
    /\ sup_pc = "start"
    /\ numeric_df' = _apply_primary_suppression(df)
    /\ after_primary' = numeric_df'
    /\ sup_pc' = "primary"
    /\ UNCHANGED <<application, df, after_rows, result_df, first_result,
                   crosstab, two_way>>
    /\ UNCHANGED <<epsVars, dpVars, parseVars, queryVars, apiVars, tableVars>>

\* _apply_complementary_suppression, the loop over the rows
RowPass ==
    /\ sup_pc = "primary"
    /\ numeric_df' = RowLoop(numeric_df, 1)
    /\ after_rows' = numeric_df'
    /\ sup_pc' = "rows"
    /\ UNCHANGED <<application, df, after_primary, result_df, first_result,
                   crosstab, two_way>>
    /\ UNCHANGED <<epsVars, dpVars, parseVars, queryVars, apiVars, tableVars>>

\* _apply_complementary_suppression, the loop over the columns
ColumnPass ==
    /\ sup_pc = "rows"
    /\ numeric_df' = ColumnLoop(numeric_df, 1)
    /\ sup_pc' = "columns"
    /\ UNCHANGED <<application, df, after_primary, after_rows, result_df,
                   first_result, crosstab, two_way>>
    /\ UNCHANGED <<epsVars, dpVars, parseVars, queryVars, apiVars, tableVars>>

\* the conversion back to strings; apply_suppression returns
Format ==
    /\ sup_pc = "columns"
    /\ result_df' = FormatTable(numeric_df)
    /\ first_result' = IF application = 1 THEN result_df' ELSE first_result
    /\ sup_pc' = "done"
    /\ UNCHANGED <<application, df, numeric_df, after_primary, after_rows,
                   crosstab, two_way>>
    /\ UNCHANGED <<epsVars, dpVars, parseVars, queryVars, apiVars, tableVars>>

\* apply_suppression is called again, on the table it returned
Reapply ==
    /\ sup_pc = "done"
    /\ application = 1
    /\ application' = 2
    /\ df' = result_df
    /\ sup_pc' = "start"
    /\ numeric_df' = <<>>
    /\ after_primary' = <<>>
    /\ after_rows' = <<>>
    /\ result_df' = <<>>
    /\ UNCHANGED <<first_result, crosstab, two_way>>
    /\ UNCHANGED <<epsVars, dpVars, parseVars, queryVars, apiVars, tableVars>>

NextSupp ==
    \/ PrimarySuppression
    \/ RowPass
    \/ ColumnPass
    \/ Format
    \/ Reapply

SpecSupp == InitSupp /\ [][NextSupp]_vars

(***************************************************************************)
(* Properties of the suppression engine.                                   *)
(***************************************************************************)
Returned == sup_pc = "done"
Suppressed(t, i, j) == t[i][j] = suppression_value
\* the number of "<5" cells in a row or a column of a string table
SuppressedInRow(t, i) == Cardinality({j \in 1..NCols(t) : Suppressed(t, i, j)})
SuppressedInColumn(t, j) == Cardinality({i \in 1..NRows(t) : Suppressed(t, i, j)})

\* C1 as stated: applying apply_suppression to its own output returns the
\* same table.
C1_Idempotent ==
    (Returned /\ application = 2) => result_df = first_result

\* a row of the returned table the row rule would act on again: exactly one
\* "<5" cell and at least two visible ones
RowUnsettled(t, i) ==
    SuppressedInRow(t, i) = 1 /\ NCols(t) - SuppressedInRow(t, i) >= 2

\* C1 as amended: a second application returns the same table for every
\* one-way table and for every table whose first result has no row with
\* exactly one suppressed cell and two or more visible cells; in every case it
\* only adds suppressed cells: a "<5" cell stays "<5" and a cell that stays
\* visible keeps its count.
C1_IdempotentUnlessRowUnsettled ==
    (Returned /\ application = 2) =>
        /\ ~two_way => result_df = first_result
        /\ (\A i \in 1..NRows(first_result) : ~RowUnsettled(first_result, i))
                => result_df = first_result
        /\ \A i \in 1..NRows(result_df) : \A j \in 1..NCols(result_df) :
                /\ Suppressed(first_result, i, j) => Suppressed(result_df, i, j)
                /\ ~Suppressed(result_df, i, j)
                        => result_df[i][j].v = first_result[i][j].v

\* a second application ran on a two-way table in which both primary and
\* complementary suppression had acted, and returned the same table
C1_Witness ==
    /\ Returned /\ application = 2 /\ two_way
    /\ result_df = first_result
    /\ \E i \in 1..NRows(crosstab) : \E j \in 1..NCols(crosstab) :
            crosstab[i][j].v >= SuppressionThreshold /\ Suppressed(result_df, i, j)

\* C2 as stated: in the returned table no row and no column of two or more
\* cells holds exactly one suppressed cell.
C2_NoLoneSuppressedCell ==
    Returned =>
        /\ \A i \in 1..NRows(result_df) :
                NCols(result_df) < 2 \/ SuppressedInRow(result_df, i) # 1
        /\ \A j \in 1..NCols(result_df) :
                NRows(result_df) < 2 \/ SuppressedInColumn(result_df, j) # 1

\* C2 as amended: in the returned table no column of three or more cells
\* holds exactly one suppressed cell, and a row of three or more cells holds
\* exactly one suppressed cell only if it held none when the column loop
\* began (the column loop suppressed it, and no row loop follows).
C2_NoLoneSuppressedCellAfterOwnPass ==
    Returned =>
        /\ \A j \in 1..NCols(result_df) :
                NRows(result_df) >= 3 => SuppressedInColumn(result_df, j) # 1
        /\ \A i \in 1..NRows(result_df) :
                (NCols(result_df) >= 3 /\ SuppressedInRow(result_df, i) = 1)
                    => isna_sum(after_rows[i]) = 0

\* a column of three or more cells had exactly one suppressed cell after
\* primary suppression and was returned with two
C2_Witness ==
    /\ Returned /\ application = 1 /\ NRows(result_df) >= 3
    /\ \E j \in 1..NCols(result_df) :
            /\ isna_sum(Column(after_primary, j)) = 1
            /\ isna_sum(Column(after_rows, j)) = 1
            /\ SuppressedInColumn(result_df, j) = 2

\* C3: every cell, margins included, whose true count c has 0 < c < 5 is NaN
\* from primary suppression on and is returned as "<5".
C3_SmallCountsSuppressed ==
    application = 1 =>
        \A i \in 1..NRows(crosstab) : \A j \in 1..NCols(crosstab) :
            (crosstab[i][j].v > 0 /\ crosstab[i][j].v < 5) =>
                /\ sup_pc \in {"primary", "rows", "columns", "done"}
                        => numeric_df[i][j].na
                /\ Returned => Suppressed(result_df, i, j)

\* a table was returned whose Total column holds a count between 1 and 4
C3_Witness ==
    /\ Returned /\ application = 1 /\ two_way
    /\ \E i \in 1..NRows(crosstab) :
            /\ crosstab[i][NCols(crosstab)].v \in 1..4
            /\ Suppressed(result_df, i, NCols(crosstab))
    /\ \E i \in 1..NRows(crosstab) : \E j \in 1..NCols(crosstab) :
            crosstab[i][j].v >= 5 /\ Suppressed(result_df, i, j)

\* C4 as stated: no cell whose true count is 0 is returned as "<5".
C4_ZeroStaysVisible ==
    (Returned /\ application = 1) =>
        \A i \in 1..NRows(crosstab) : \A j \in 1..NCols(crosstab) :
            crosstab[i][j].v = 0 =>
                ~Suppressed(result_df, i, j) /\ result_df[i][j].v = 0

\* the cell is the only zero count of its row and of its column
OnlyZero(t, i, j) ==
    /\ t[i][j].v = 0
    /\ \A k \in 1..NCols(t) : k # j => t[i][k].v # 0
    /\ \A k \in 1..NRows(t) : k # i => t[k][j].v # 0

\* C4 as amended: primary suppression leaves every zero count visible, and a
\* zero count that is the only zero of its row and of its column is returned
\* visible as 0; complementary suppression can return a zero count as "<5"
\* when its row or column holds another zero.
C4_ZeroStaysVisibleUnlessAnotherZero ==
    application = 1 =>
        \A i \in 1..NRows(crosstab) : \A j \in 1..NCols(crosstab) :
            crosstab[i][j].v = 0 =>
                /\ sup_pc # "start" => ~after_primary[i][j].na
                /\ (Returned /\ OnlyZero(crosstab, i, j)) =>
                        ~Suppressed(result_df, i, j) /\ result_df[i][j].v = 0

\* a zero count, the only one of its row and column, was returned visible
\* from a row in which the row loop suppressed a second cell
C4_Witness ==
    /\ Returned /\ application = 1
    /\ \E i \in 1..NRows(crosstab) : \E j \in 1..NCols(crosstab) :
            /\ OnlyZero(crosstab, i, j)
            /\ isna_sum(after_primary[i]) = 1
            /\ isna_sum(after_rows[i]) = 2
            /\ ~Suppressed(result_df, i, j)

(***************************************************************************)
(* DifferentialPrivacyEngine._calculate_dynamic_epsilon                    *)
(*                                                                         *)
(* An epsilon is a number of thousandths; the proportion                   *)
(* subset_size / total_size is kept as the fraction it is.                 *)
(***************************************************************************)
\* the sizes a call is made with go up to MaxSize (a subset size one further)
MaxSize == 10
\* the calls made on one engine
MaxCalls == 2
\* the base_epsilon values an engine is built with: 0.0, 0.2, 1.0, 3.0, 10.0
BaseEpsilons == {0, 200, 1000, 3000, 10000}

\* base_epsilon: float = 1.0
DefaultBaseEpsilon == 1000
\* max(0.1, min(adjusted_epsilon, 2.0))
MinEpsilon == 100
MaxEpsilon == 2000

Max2(a, b) == IF a >= b THEN a ELSE b
Min2(a, b) == IF a <= b THEN a ELSE b

\* proportion = subset_size / total_size if total_size > 0 else 1.0
Proportion(subset, total) == IF total > 0 THEN <<subset, total>> ELSE <<1, 1>>

\* proportion <= tenths / 10
AtMostTenths(proportion, tenths) == 10 * proportion[1] <= tenths * proportion[2]
\* proportion < tenths / 10
BelowTenths(proportion, tenths) == 10 * proportion[1] < tenths * proportion[2]

\* the comparisons as proportion < 0.1, < 0.3, < 0.7
_calculate_dynamic_epsilon_strict(self_base_epsilon, subset, total) ==
    LET proportion == Proportion(subset, total)
        adjusted_epsilon ==
            IF BelowTenths(proportion, 1) THEN (self_base_epsilon * 3) \div 10
            ELSE IF BelowTenths(proportion, 3) THEN (self_base_epsilon * 5) \div 10
            ELSE IF BelowTenths(proportion, 7) THEN (self_base_epsilon * 8) \div 10
            ELSE self_base_epsilon
    IN  Max2(MinEpsilon, Min2(adjusted_epsilon, MaxEpsilon))

\* the multipliers of the two middle bands exchanged
_calculate_dynamic_epsilon_swapped(self_base_epsilon, subset, total) ==
    LET proportion == Proportion(subset, total)
        adjusted_epsilon ==
            IF AtMostTenths(proportion, 1) THEN (self_base_epsilon * 3) \div 10
            ELSE IF AtMostTenths(proportion, 3) THEN (self_base_epsilon * 8) \div 10
            ELSE IF AtMostTenths(proportion, 7) THEN (self_base_epsilon * 5) \div 10
            ELSE self_base_epsilon
    IN  Max2(MinEpsilon, Min2(adjusted_epsilon, MaxEpsilon))

_calculate_dynamic_epsilon(self_base_epsilon, subset, total) ==
    LET proportion == Proportion(subset, total)
        adjusted_epsilon ==
            IF AtMostTenths(proportion, 1) THEN (self_base_epsilon * 3) \div 10
            ELSE IF AtMostTenths(proportion, 3) THEN (self_base_epsilon * 5) \div 10
            ELSE IF AtMostTenths(proportion, 7) THEN (self_base_epsilon * 8) \div 10
            ELSE self_base_epsilon
    IN  Max2(MinEpsilon, Min2(adjusted_epsilon, MaxEpsilon))

InitEps ==
    /\ SuppIdle /\ DPIdle /\ ParseIdle /\ QueryIdle /\ ApiIdle /\ TableIdle
    /\ base_epsilon \in BaseEpsilons
    /\ total_size \in 0..MaxSize
    /\ eps_calls = <<>>

\* one call of _calculate_dynamic_epsilon(subset_size, total_size)
CalculateDynamicEpsilon ==
    /\ Len(eps_calls) < MaxCalls
    /\ \E subset_size \in 0..(MaxSize + 1) :
            eps_calls' = Append(eps_calls,
                [subset_size |-> subset_size,
                 epsilon |-> _calculate_dynamic_epsilon(base_epsilon, subset_size,
                                                        total_size)])
    /\ UNCHANGED <<base_epsilon, total_size>>
    /\ UNCHANGED <<supVars, dpVars, parseVars, queryVars, apiVars, tableVars>>

NextEps == CalculateDynamicEpsilon

SpecEps == InitEps /\ [][NextEps]_vars

(***************************************************************************)
(* Properties of _calculate_dynamic_epsilon.                               *)
(***************************************************************************)
\* the multiplier of the specification's table, in tenths
TableMultiplier(subset, total) ==
    CASE total = 0 -> 10
      [] total > 0 /\ 10 * subset <= total -> 3
      [] total > 0 /\ 10 * subset > total /\ 10 * subset <= 3 * total -> 5
      [] total > 0 /\ 10 * subset > 3 * total /\ 10 * subset <= 7 * total -> 8
      [] total > 0 /\ 10 * subset > 7 * total -> 10

Clamp(x, lo, hi) == IF x < lo THEN lo ELSE IF x > hi THEN hi ELSE x

C8_EpsilonMonotone ==
    \A k \in 1..Len(eps_calls) : \A l \in 1..Len(eps_calls) :
        eps_calls[k].subset_size <= eps_calls[l].subset_size
            => eps_calls[k].epsilon <= eps_calls[l].epsilon

\* two calls with the same total_size, the second subset larger, returned a
\* strictly larger epsilon
C8_Witness ==
    /\ Len(eps_calls) = 2
    /\ eps_calls[1].subset_size < eps_calls[2].subset_size
    /\ eps_calls[1].epsilon < eps_calls[2].epsilon
    /\ eps_calls[2].subset_size <= total_size

(***************************************************************************)
(* DifferentialPrivacyEngine.apply_differential_privacy                    *)
(*                                                                         *)
(* A float is a number of 1/Scale; a noise sample is one of a few floats.  *)
(***************************************************************************)
\* the resolution of the floats
Scale == 4
\* the counts of a table go up to MaxDPCount
MaxDPCount == 3
\* a one-way table has at most MaxDPRows rows
MaxDPRows == 2
\* the samples np.random.laplace can return: -2.5, 0.5, 1.25
Noise == {-10, 2, 5}
\* the categories of variable2 in the data, in the order crosstab sorts them
Var2Labelings ==
    {<<"F">>, <<"index">>, <<"F", "M">>, <<"F", "index">>, <<"M", "variable">>,
     <<"index", "variable">>}

\* np.round(x): to the nearest integer, a half to the even one
np_round(x) ==
    LET q == x \div Scale
        r == x % Scale
    IN  IF 2 * r < Scale THEN q
        ELSE IF 2 * r > Scale THEN q + 1
        ELSE IF q % 2 = 0 THEN q ELSE q + 1

\* without np.maximum(noisy_counts, 0)
NoisyCount_unclamped(count, sample) == np_round(Scale * count + sample)

\* numeric_col + noise, np.maximum(., 0), np.round(.).astype(int)
NoisyCount(count, sample) ==
    LET noisy_counts == Scale * count + sample
    IN  np_round(Max2(noisy_counts, 0))

\* if col in ['index', 'variable']: continue
Skipped(label) == label \in {"index", "variable"}

\* the tables create_frequency_table hands to apply_differential_privacy
DPOneWayInputs ==
    UNION {{c \in [1..n -> 1..MaxDPCount] : \A i \in 1..(n - 1) : c[i] >= c[i + 1]}
           : n \in 1..MaxDPRows}

InitDP ==
    /\ SuppIdle /\ ParseIdle /\ QueryIdle /\ ApiIdle /\ TableIdle
    /\ base_epsilon = DefaultBaseEpsilon /\ total_size = 0 /\ eps_calls = <<>>
    /\ dp_pc = "start"
    /\ \/ \E c \in DPOneWayInputs :
            /\ dp_df = ValueCounts(c)
            /\ dp_columns = <<"freq">>
            /\ \E subset \in {1, SumSeq(c)} : dp_sizes = <<subset, SumSeq(c)>>
       \/ \E labels \in Var2Labelings :
          \E c \in [1..Len(labels) -> 1..MaxDPCount] :
            /\ dp_df = Crosstab(<<c>>)
            /\ dp_columns = labels \o <<"Total">>
            /\ \E subset \in {1, SumSeq(c)} : dp_sizes = <<subset, SumSeq(c)>>
    /\ epsilon = 0
    /\ dp_col = 0
    /\ noise = <<>>
    /\ dp_result = <<>>

\* epsilon = self._calculate_dynamic_epsilon(...); result = df.copy()
DPBegin ==
    /\ dp_pc = "start"
    /\ epsilon' = _calculate_dynamic_epsilon(base_epsilon, dp_sizes[1], dp_sizes[2])
    /\ dp_result' = dp_df
    /\ noise' = [j \in 1..NCols(dp_df) |-> <<>>]
    /\ dp_col' = 1
    /\ dp_pc' = "loop"
    /\ UNCHANGED <<dp_columns, dp_df, dp_sizes>>
    /\ UNCHANGED <<supVars, epsVars, parseVars, queryVars, apiVars, tableVars>>

\* a loop iteration that takes the continue
DPSkipColumn ==
    /\ dp_pc = "loop"
    /\ dp_col <= NCols(dp_df)
    /\ Skipped(dp_columns[dp_col])
    /\ dp_col' = dp_col + 1
    /\ UNCHANGED <<dp_pc, dp_columns, dp_df, dp_sizes, epsilon, noise, dp_result>>
    /\ UNCHANGED <<supVars, epsVars, parseVars, queryVars, apiVars, tableVars>>

\* a loop iteration that draws len(numeric_col) samples and stores the column
DPNoiseColumn ==
    /\ dp_pc = "loop"
    /\ dp_col <= NCols(dp_df)
    /\ ~Skipped(dp_columns[dp_col])
    /\ \E samples \in [1..NRows(dp_df) -> Noise] :
        /\ noise' = [noise EXCEPT ![dp_col] = samples]
        /\ dp_result' =
              [i \in 1..NRows(dp_df) |->
                  [dp_result[i] EXCEPT ![dp_col] =
                      Int64(NoisyCount(to_numeric(dp_result[i][dp_col]).v,
                                       samples[i]))]]
    /\ dp_col' = dp_col + 1
    /\ UNCHANGED <<dp_pc, dp_columns, dp_df, dp_sizes, epsilon>>
    /\ UNCHANGED <<supVars, epsVars, parseVars, queryVars, apiVars, tableVars>>

\* return result
DPReturn ==
    /\ dp_pc = "loop"
    /\ dp_col > NCols(dp_df)
    /\ dp_pc' = "done"
    /\ UNCHANGED <<dp_columns, dp_df, dp_sizes, epsilon, dp_col, noise, dp_result>>
    /\ UNCHANGED <<supVars, epsVars, parseVars, queryVars, apiVars, tableVars>>

NextDP ==
    \/ DPBegin
    \/ DPSkipColumn
    \/ DPNoiseColumn
    \/ DPReturn

SpecDP == InitDP /\ [][NextDP]_vars

(***************************************************************************)
(* Properties of apply_differential_privacy.                               *)
(***************************************************************************)
DPReturned == dp_pc = "done"
\* the float count + sample, clamped at 0
ClampedNoisy(i, j) == Max2(Scale * dp_df[i][j].v + noise[j][i], 0)
\* n is an integer nearest to the float x
Nearest(n, x) == 2 * (Scale * n - x) <= Scale /\ 2 * (x - Scale * n) <= Scale

\* C9: every cell of the returned table is a non-negative integer, and the
\* cell of a column that was noised is an integer nearest to
\* max(count + noise, 0).
C9_NonNegativeIntegers ==
    DPReturned =>
        \A i \in 1..NRows(dp_result) : \A j \in 1..NCols(dp_result) :
            /\ dp_result[i][j].fmt = "int"
            /\ dp_result[i][j].v \in Nat
            /\ Len(noise[j]) > 0 => Nearest(dp_result[i][j].v, ClampedNoisy(i, j))

\* a table was returned in which a negative noised value was clamped to 0
\* and a noised value that is no integer was rounded
C9_Witness ==
    /\ DPReturned
    /\ \E i \in 1..NRows(dp_result) : \E j \in 1..NCols(dp_result) :
            /\ Len(noise[j]) > 0
            /\ Scale * dp_df[i][j].v + noise[j][i] < 0
            /\ dp_result[i][j].v = 0
    /\ \E i \in 1..NRows(dp_result) : \E j \in 1..NCols(dp_result) :
            /\ Len(noise[j]) > 0
            /\ ClampedNoisy(i, j) % Scale # 0
            /\ dp_result[i][j].v > 0

\* C10: every column of the table, whatever its label, got a noise sample per
\* cell, and its cells are round(max(count + noise, 0)).
C10_EveryColumnNoised ==
    DPReturned =>
        \A j \in 1..NCols(dp_result) :
            /\ Len(noise[j]) = NRows(dp_result)
            /\ \A i \in 1..NRows(dp_result) :
                    dp_result[i][j].v = np_round(ClampedNoisy(i, j))

(***************************************************************************)
(* StataParser (lark grammar and TabCommandTransformer)                    *)
(*                                                                         *)
(* A command is the sequence of its tokens.  A COMP token carries the      *)
(* three groups the regular expression of comparison() cuts it into.       *)
(***************************************************************************)
\* a condition has at most MaxOperands comparisons
MaxOperands == 3

TAB == [type |-> "tab"]
IF_ == [type |-> "if"]
Op(o) == [type |-> o]
CNAME(name) == [type |-> "CNAME", text |-> name]
COMP(var, op, lit) == [type |-> "COMP", var |-> var, op |-> op, lit |-> lit]
\* a literal as written: "..." or a number
Quoted(text) == [quoted |-> TRUE, text |-> text]
Number(n) == [quoted |-> FALSE, number |-> n]

\* Python values: a str, a number, None
StrValue(text) == [str |-> text]
NumValue(n) == [num |-> n]
NoVariable == ""
NoCondition == [none |-> TRUE]

\* TabCommandTransformer.comparison
comparison(token) ==
    [variable |-> token.var,
     operator |-> token.op,
     value |-> IF token.lit.quoted THEN StrValue(token.lit.text)
               ELSE NumValue(token.lit.number)]

\* TabCommandTransformer.and_expr
and_expr(args) ==
    IF Len(args) = 1 THEN args[1]
    ELSE [operator |-> "&", left |-> args[1], right |-> args[2]]

\* TabCommandTransformer.or_expr
or_expr(args) ==
    IF Len(args) = 1 THEN args[1]
    ELSE [operator |-> "|", left |-> args[1], right |-> args[2]]

\* the pieces of a token sequence between the tokens of type sep
RECURSIVE SplitOn(_, _)
SplitOn(tokens, sep) ==
    IF \A k \in 1..Len(tokens) : tokens[k].type # sep THEN <<tokens>>
    ELSE LET k == CHOOSE k \in 1..Len(tokens) :
                    /\ tokens[k].type = sep
                    /\ \A l \in 1..(k - 1) : tokens[l].type # sep
         IN  <<SubSeq(tokens, 1, k - 1)>>
                \o SplitOn(SubSeq(tokens, k + 1, Len(tokens)), sep)

\* and_expr: comparison ("&" comparison)*
IsAndExpr(tokens) ==
    LET parts == SplitOn(tokens, "&")
    IN  \A k \in 1..Len(parts) : Len(parts[k]) = 1 /\ parts[k][1].type = "COMP"

ParseAndExpr(tokens) ==
    LET parts == SplitOn(tokens, "&")
    IN  and_expr([k \in 1..Len(parts) |-> comparison(parts[k][1])])

\* or_expr: and_expr ("|" and_expr)*
IsOrExpr(tokens) ==
    LET parts == SplitOn(tokens, "|")
    IN  \A k \in 1..Len(parts) : IsAndExpr(parts[k])

ParseOrExpr(tokens) ==
    LET parts == SplitOn(tokens, "|")
    IN  or_expr([k \in 1..Len(parts) |-> ParseAndExpr(parts[k])])

\* TabCommandTransformer.tab_command; args holds the first variable, the
\* second or None, the condition or None
tab_command(args) ==
    LET isstr(x) == "str" \in DOMAIN x
        isdict(x) == "dict" \in DOMAIN x
        var1 == IF Len(args) > 0 THEN args[1].str ELSE NoVariable
        var2 == IF Len(args) > 1 /\ isstr(args[2]) THEN args[2].str ELSE NoVariable
        condition == IF Len(args) > 2 /\ isdict(args[3]) THEN args[3].dict
                     ELSE NoCondition
    IN  IF Len(args) > 1 /\ isdict(args[2])
        THEN [command |-> "tab", variable1 |-> var1, variable2 |-> NoVariable,
              condition |-> args[2].dict]
        ELSE [command |-> "tab", variable1 |-> var1, variable2 |-> var2,
              condition |-> condition]

\* tab_command: "tab" variable [variable] ["if" condition]
NVariables(tokens) ==
    IF Len(tokens) >= 3 /\ tokens[3].type = "CNAME" THEN 2 ELSE 1

Grammatical(tokens) ==
    /\ Len(tokens) >= 2
    /\ tokens[1].type = "tab"
    /\ tokens[2].type = "CNAME"
    /\ LET rest == SubSeq(tokens, NVariables(tokens) + 2, Len(tokens))
       IN  \/ Len(rest) = 0
           \/ /\ Len(rest) >= 2
              /\ rest[1].type = "if"
              /\ IsOrExpr(Tail(rest))

\* StataParser.parse: the ParsedCommand, or the ValueError it raises
parse(tokens) ==
    IF ~Grammatical(tokens)
    THEN [error |-> "Invalid command syntax"]
    ELSE LET n == NVariables(tokens)
             rest == SubSeq(tokens, n + 2, Len(tokens))
             None == [none |-> TRUE]
         IN  tab_command(<<
                [str |-> tokens[2].text],
                IF n = 2 THEN [str |-> tokens[3].text] ELSE None,
                IF Len(rest) > 0 THEN [dict |-> ParseOrExpr(Tail(rest))] ELSE None
             >>)

\* the commands handed to the parser
Names == {"sex", "age"}
Comparisons ==
    {COMP("sex", "==", Quoted("F")), COMP("age", ">", Number(5)),
     COMP("age", "<=", Number(1))}

Interleave(comps, ops) ==
    [k \in 1..(2 * Len(comps) - 1) |->
        IF k % 2 = 1 THEN comps[(k + 1) \div 2] ELSE Op(ops[k \div 2])]

Conditions(comps, most) ==
    UNION {{Interleave(c, o) : c \in [1..n -> comps], o \in [1..(n - 1) -> {"&", "|"}]}
           : n \in 1..most}

VariableLists(names) ==
    {<<CNAME(v)>> : v \in names} \cup {<<CNAME(v), CNAME(w)>> : v \in names, w \in names}

ValidCommands(names, comps, most) ==
    {<<TAB>> \o v : v \in VariableLists(names)}
    \cup {<<TAB>> \o v \o <<IF_>> \o c :
            v \in VariableLists(names), c \in Conditions(comps, most)}

\* commands that do not match the grammar
InvalidCommands ==
    {<<TAB>>, <<TAB, CNAME("sex"), CNAME("age"), CNAME("sex")>>,
     <<TAB, CNAME("sex"), IF_>>,
     <<TAB, CNAME("sex"), IF_, Op("&")>>}

InitParse ==
    /\ SuppIdle /\ EpsIdle /\ DPIdle /\ QueryIdle /\ ApiIdle /\ TableIdle
    /\ command \in ValidCommands(Names, Comparisons, MaxOperands) \cup InvalidCommands
    /\ parsed = NotParsed

\* stata_parser.parse(command)
Parse ==
    /\ parsed = NotParsed
    /\ parsed' = parse(command)
    /\ UNCHANGED command
    /\ UNCHANGED <<supVars, epsVars, dpVars, queryVars, apiVars, tableVars>>

NextParse == Parse

SpecParse == InitParse /\ [][NextParse]_vars

(***************************************************************************)
(* Properties of the parser.                                               *)
(***************************************************************************)
IsComparison(node) == "variable" \in DOMAIN node

\* the comparisons of a condition tree, left to right
RECURSIVE Leaves(_)
Leaves(node) ==
    IF IsComparison(node) THEN <<node>>
    ELSE Leaves(node.left) \o Leaves(node.right)

\* the operator nodes of a condition tree
RECURSIVE OperatorNodes(_)
OperatorNodes(node) ==
    IF IsComparison(node) THEN 0
    ELSE 1 + OperatorNodes(node.left) + OperatorNodes(node.right)

IsComp(token) == token.type = "COMP"
\* the comparisons written in a command, in order
Written(tokens) ==
    LET comps == SelectSeq(tokens, IsComp)
    IN  [k \in 1..Len(comps) |-> comparison(comps[k])]

ParsedOk == "variable1" \in DOMAIN parsed

\* C5: the condition tree of a parsed command holds every comparison written
\* in the command, in order, under one operator node fewer than comparisons.
C5_NoOperandDropped ==
    (ParsedOk /\ Len(Written(command)) > 0) =>
        /\ Leaves(parsed.condition) = Written(command)
        /\ OperatorNodes(parsed.condition) = Len(Written(command)) - 1

(***************************************************************************)
(* QueryEngine.execute_query                                               *)
(*                                                                         *)
(* The dataset is a sequence of rows; a row gives each column a str or a   *)
(* number.  The cells of the frequency table an engine returns are the     *)
(* subject of SpecSupp and SpecDP; here the call made to the engine is     *)
(* recorded with its arguments.                                            *)
(***************************************************************************)
\* the second kind of row occurs 0, 1 or MaxCopies times in a dataset, the
\* others 0 times or once
MaxCopies == 9
\* a condition of a query has at most MaxQueryOperands comparisons
MaxQueryOperands == 2

\* df.columns.tolist()
QueryColumns == <<"sex", "age">>
AvailableColumns == {QueryColumns[k] : k \in 1..Len(QueryColumns)}

RowKinds ==
    <<[sex |-> StrValue("F"), age |-> NumValue(1)],
      [sex |-> StrValue("M"), age |-> NumValue(7)],
      [sex |-> StrValue("F"), age |-> NumValue(7)]>>

Repeat(x, n) == [k \in 1..n |-> x]

Datasets ==
    {Repeat(RowKinds[1], m[1]) \o Repeat(RowKinds[2], m[2]) \o Repeat(RowKinds[3], m[3])
        : m \in {n \in [1..3 -> {0, 1, MaxCopies}] : n[1] <= 1 /\ n[3] <= 1}} \ {<<>>}

PrivacyModes == {"suppression", "differential_privacy", "none"}

\* the names and comparisons of the commands: zip is no column, age == "F",
\* sex < 5 and sex != 5 compare a column with a literal of the other type
QueryNames == {"sex", "age", "zip"}
QueryComparisons ==
    {COMP("sex", "==", Quoted("F")), COMP("age", ">", Number(5)),
     COMP("age", "==", Quoted("F")), COMP("sex", "<", Number(5)),
     COMP("sex", "!=", Number(5)), COMP("zip", "==", Number(1))}

\* the two variables of a two-way command differ
QueryCommands ==
    {c \in ValidCommands(QueryNames, QueryComparisons, MaxQueryOperands) :
        NVariables(c) = 2 => c[2] # c[3]}
    \cup InvalidCommands

\* the order of str values
StringOrder == <<"F", "M">>
StrRank(text) == CHOOSE k \in 1..Len(StringOrder) : StringOrder[k] = text

IsStr(v) == "str" \in DOMAIN v
SameType(a, b) == IsStr(a) = IsStr(b)
Less(a, b) == IF IsStr(a) THEN StrRank(a.str) < StrRank(b.str) ELSE a.num < b.num

\* df[var] <op> val on one row; a str never equals a number
CompareCell(cell, op, val) ==
    IF ~SameType(cell, val) THEN op = "!="
    ELSE CASE op = "==" -> cell = val
           [] op = "!=" -> cell # val
           [] op = "<" -> Less(cell, val)
           [] op = ">" -> Less(val, cell)
           [] op = "<=" -> ~Less(val, cell)
           [] op = ">=" -> ~Less(cell, val)

ComparisonOperators == {"==", "!=", "<", ">", "<=", ">="}

\* pandas raises TypeError when a column is ordered against a literal of the
\* other type
ComparisonRaises(rows, var, op, val) ==
    /\ op \in {"<", ">", "<=", ">="}
    /\ \E k \in 1..Len(rows) : ~SameType(rows[k][var], val)

\* the mask of one comparison, or what it raises
ComparisonMask(rows, condition) ==
    LET var == condition.variable
        op == condition.operator
        val == condition.value
    IN  IF var \notin AvailableColumns THEN [raise |-> "KeyError", message |-> var]
        ELSE IF op \notin ComparisonOperators
        THEN [raise |-> "ValueError",
              message |-> "Unsupported comparison operator: {op}", op |-> op]
        ELSE IF ComparisonRaises(rows, var, op, val)
        THEN [raise |-> "TypeError",
              message |-> "'{op}' not supported between instances of str and int",
              op |-> op]
        ELSE [mask |-> [k \in 1..Len(rows) |-> CompareCell(rows[k][var], op, val)]]

Raised(x) == "raise" \in DOMAIN x

\* every operator node as |
RECURSIVE _apply_filter_mask_OrOnly(_, _)
_apply_filter_mask_OrOnly(rows, condition) ==
    IF condition.operator \in {"&", "|"}
    THEN LET left_mask == _apply_filter_mask_OrOnly(rows, condition.left)
             right_mask == _apply_filter_mask_OrOnly(rows, condition.right)
         IN  IF Raised(left_mask) THEN left_mask
             ELSE IF Raised(right_mask) THEN right_mask
             ELSE [mask |-> [k \in 1..Len(rows) |->
                      left_mask.mask[k] \/ right_mask.mask[k]]]
    ELSE ComparisonMask(rows, condition)

\* QueryEngine._apply_filter_mask
RECURSIVE _apply_filter_mask(_, _)
_apply_filter_mask(rows, condition) ==
    IF condition.operator \in {"&", "|"}
    THEN LET left_mask == _apply_filter_mask(rows, condition.left)
             right_mask == _apply_filter_mask(rows, condition.right)
         IN  IF Raised(left_mask) THEN left_mask
             ELSE IF Raised(right_mask) THEN right_mask
             ELSE [mask |-> [k \in 1..Len(rows) |->
                      IF condition.operator = "&"
                      THEN left_mask.mask[k] /\ right_mask.mask[k]
                      ELSE left_mask.mask[k] \/ right_mask.mask[k]]]
    ELSE ComparisonMask(rows, condition)

\* df[mask]
RECURSIVE SelectRows(_, _, _)
SelectRows(rows, mask, k) ==
    IF k > Len(rows) THEN <<>>
    ELSE (IF mask[k] THEN <<rows[k]>> ELSE <<>>) \o SelectRows(rows, mask, k + 1)

\* QueryEngine._apply_filter: the rows kept, or what it raises
_apply_filter(rows, condition) ==
    IF condition.operator \in {"&", "|"}
    THEN LET left_mask == _apply_filter_mask(rows, condition.left)
             right_mask == _apply_filter_mask(rows, condition.right)
         IN  IF Raised(left_mask) THEN left_mask
             ELSE IF Raised(right_mask) THEN right_mask
             ELSE [rows |-> SelectRows(rows,
                      [k \in 1..Len(rows) |->
                          IF condition.operator = "&"
                          THEN left_mask.mask[k] /\ right_mask.mask[k]
                          ELSE left_mask.mask[k] \/ right_mask.mask[k]], 1)]
    ELSE LET m == ComparisonMask(rows, condition)
         IN  IF Raised(m) THEN m ELSE [rows |-> SelectRows(rows, m.mask, 1)]

\* StataParser._extract_variables_from_condition
RECURSIVE _extract_variables_from_condition(_)
_extract_variables_from_condition(condition) ==
    IF "variable" \in DOMAIN condition THEN {condition.variable}
    ELSE IF "operator" \in DOMAIN condition
    THEN _extract_variables_from_condition(condition.left)
            \cup _extract_variables_from_condition(condition.right)
    ELSE {}

\* StataParser.validate_variables: the variables it can raise for; the
\* variables of the condition are checked in the order of a set
validate_variables(parsed_command, available_columns) ==
    IF /\ parsed_command.variable1 # NoVariable
       /\ parsed_command.variable1 \notin available_columns
    THEN {parsed_command.variable1}
    ELSE IF /\ parsed_command.variable2 # NoVariable
            /\ parsed_command.variable2 \notin available_columns
    THEN {parsed_command.variable2}
    ELSE IF parsed_command.condition # NoCondition
    THEN {v \in _extract_variables_from_condition(parsed_command.condition) :
            v \notin available_columns}
    ELSE {}

\* DifferentialPrivacyEngine.create_frequency_table(df, var1, var2,
\* subset_size): the sizes and the epsilon it protects the table with
DPCreateFrequencyTable(rows, var1, var2, subset_size) ==
    LET total == Len(rows)
    IN  [engine |-> "differential_privacy", var1 |-> var1, var2 |-> var2,
         subset_size |-> subset_size, total_size |-> total,
         epsilon |-> _calculate_dynamic_epsilon(base_epsilon, subset_size, total)]

\* SuppressionEngine.create_frequency_table(df, var1, var2)
SuppressionCreateFrequencyTable(rows, var1, var2) ==
    [engine |-> "suppression", var1 |-> var1, var2 |-> var2]

\* the suppression engine for the mode "suppression" only, and the counts as
\* tabulated for a mode that is neither
freq_table_UnprotectedForOthers(mode, rows, var1, var2) ==
    IF mode = "differential_privacy"
    THEN DPCreateFrequencyTable(rows, var1, var2, Len(rows))
    ELSE IF mode = "suppression"
    THEN SuppressionCreateFrequencyTable(rows, var1, var2)
    ELSE [engine |-> "crosstab", var1 |-> var1, var2 |-> var2]

\* if privacy_mode == "differential_privacy": freq_table = ... else: ...
freq_table(mode, rows, var1, var2) ==
    IF mode = "differential_privacy"
    THEN DPCreateFrequencyTable(rows, var1, var2, Len(rows))
    ELSE SuppressionCreateFrequencyTable(rows, var1, var2)

\* without the return of the empty-match result
DataFrameEmpty_never(rows) == FALSE

\* filtered_df.empty
DataFrameEmpty(rows) == Len(rows) = 0

\* str(e): the message of an exception, without its type
Str(e) == [f \in DOMAIN e \ {"raise"} |-> e[f]]

\* the except clause of execute_query
QueryFailed(e) ==
    [error |-> "ValueError",
     message |-> "Query execution failed: {str(e)}",
     str_e |-> Str(e),
     context |-> e.raise]

InitQuery ==
    /\ SuppIdle /\ DPIdle /\ ApiIdle /\ TableIdle
    /\ base_epsilon = DefaultBaseEpsilon /\ total_size = 0 /\ eps_calls = <<>>
    /\ command \in QueryCommands
    /\ parsed = NotParsed
    /\ q_pc = "parse"
    /\ dataset \in Datasets
    /\ privacy_mode \in PrivacyModes
    /\ filtered_df = <<>>
    /\ engine_call = NoCall
    /\ response = NoResponse

\* parsed = self.parser.parse(command)
QueryParse ==
    /\ q_pc = "parse"
    /\ parsed' = parse(command)
    /\ IF "error" \in DOMAIN parsed'
       THEN /\ response' = QueryFailed([raise |-> "ValueError",
                                        message |-> parsed'.error])
            /\ q_pc' = "done"
       ELSE /\ response' = response
            /\ q_pc' = "validate"
    /\ UNCHANGED <<command, dataset, privacy_mode, filtered_df, engine_call>>
    /\ UNCHANGED <<supVars, epsVars, dpVars, apiVars, tableVars>>

\* self.parser.validate_variables(parsed, df.columns.tolist())
QueryValidate ==
    /\ q_pc = "validate"
    /\ LET missing == validate_variables(parsed, AvailableColumns)
       IN  IF missing = {}
           THEN /\ response' = response
                /\ q_pc' = "filter"
           ELSE /\ \E var \in missing :
                    response' = QueryFailed([raise |-> "ValueError",
                        message |-> "Variable '{var}' not found in dataset",
                        var |-> var])
                /\ q_pc' = "done"
    /\ UNCHANGED <<dataset, privacy_mode, filtered_df, engine_call>>
    /\ UNCHANGED <<supVars, epsVars, dpVars, parseVars, apiVars, tableVars>>

\* filtered_df = df.copy(), filtered by the condition if there is one
QueryFilter ==
    /\ q_pc = "filter"
    /\ IF parsed.condition = NoCondition
       THEN /\ filtered_df' = dataset
            /\ response' = response
            /\ q_pc' = "tabulate"
       ELSE LET kept == _apply_filter(dataset, parsed.condition)
            IN  IF Raised(kept)
                THEN /\ filtered_df' = filtered_df
                     /\ response' = QueryFailed(kept)
                     /\ q_pc' = "done"
                ELSE /\ filtered_df' = kept.rows
                     /\ response' = response
                     /\ q_pc' = "tabulate"
    /\ UNCHANGED <<dataset, privacy_mode, engine_call>>
    /\ UNCHANGED <<supVars, epsVars, dpVars, parseVars, apiVars, tableVars>>

\* if filtered_df.empty: return the empty-match result
QueryEmpty ==
    /\ q_pc = "tabulate"
    /\ DataFrameEmpty(filtered_df)
    /\ response' = [columns |-> <<>>, data |-> <<>>,
                    message |-> "No data matches the specified conditions"]
    /\ q_pc' = "done"
    /\ UNCHANGED <<dataset, privacy_mode, filtered_df, engine_call>>
    /\ UNCHANGED <<supVars, epsVars, dpVars, parseVars, apiVars, tableVars>>

\* the frequency table by the engine of the privacy mode, and the response
QueryTabulate ==
    /\ q_pc = "tabulate"
    /\ ~DataFrameEmpty(filtered_df)
    /\ LET var1 == parsed.variable1
           var2 == parsed.variable2
       IN  IF var1 = NoVariable
           THEN /\ engine_call' = engine_call
                /\ response' = QueryFailed([raise |-> "ValueError",
                        message |-> "First variable is None - parser error"])
           ELSE IF \/ var1 \notin AvailableColumns
                   \/ var2 # NoVariable /\ var2 \notin AvailableColumns
           THEN /\ engine_call' = engine_call
                /\ response' = QueryFailed([raise |-> "ValueError",
                        message |-> "Variable '{var}' not found in dataset. Available columns: {columns}",
                        var |-> IF var1 \notin AvailableColumns THEN var1 ELSE var2,
                        columns |-> QueryColumns])
           ELSE /\ engine_call' = freq_table(privacy_mode, filtered_df, var1, var2)
                /\ response' =
                     [columns |-> IF var2 = NoVariable THEN <<var1, "freq">>
                                  ELSE <<var1, var2, "freq">>,
                      row_count |-> Len(filtered_df),
                      command |-> command]
    /\ q_pc' = "done"
    /\ UNCHANGED <<dataset, privacy_mode, filtered_df>>
    /\ UNCHANGED <<supVars, epsVars, dpVars, parseVars, apiVars, tableVars>>

NextQuery ==
    \/ QueryParse
    \/ QueryValidate
    \/ QueryFilter
    \/ QueryEmpty
    \/ QueryTabulate

SpecQuery == InitQuery /\ [][NextQuery]_vars

(***************************************************************************)
(* Properties of execute_query.                                            *)
(***************************************************************************)
QueryDone == q_pc = "done"

\* C6: in differential_privacy mode epsilon is calibrated from the number of
\* rows left after the filter and the number of rows of the whole dataset, so
\* a filter that keeps at most a tenth of the rows gets 0.3 * base_epsilon.
C6_EpsilonFromFullDataset ==
    (QueryDone /\ engine_call.engine = "differential_privacy") =>
        /\ engine_call.subset_size = Len(filtered_df)
        /\ engine_call.total_size = Len(dataset)
        /\ 10 * Len(filtered_df) <= Len(dataset) => engine_call.epsilon = 300

\* the variables a command names: after tab, and in every comparison
NamedVariables(tokens) ==
    {tokens[k].text : k \in {l \in 1..Len(tokens) : tokens[l].type = "CNAME"}}
    \cup {tokens[k].var : k \in {l \in 1..Len(tokens) : tokens[l].type = "COMP"}}
UnknownVariables(tokens) == NamedVariables(tokens) \ AvailableColumns
IsError(r) == "error" \in DOMAIN r

\* C11: a command naming a variable that is no column fails before the filter
\* and before any table, and the error carries the variable's name and the
\* list of the available columns.
C11_UnknownVariableError ==
    (QueryDone /\ ParsedOk /\ UnknownVariables(command) # {}) =>
        /\ IsError(response)
        /\ filtered_df = <<>>
        /\ engine_call = NoCall
        /\ "var" \in DOMAIN response.str_e
        /\ response.str_e.var \in UnknownVariables(command)
        /\ "columns" \in DOMAIN response.str_e
        /\ response.str_e.columns = QueryColumns

\* the command is valid and its filter keeps no row of the dataset
FilterLeavesNoRows ==
    /\ ParsedOk
    /\ validate_variables(parsed, AvailableColumns) = {}
    /\ parsed.condition # NoCondition
    /\ LET kept == _apply_filter(dataset, parsed.condition)
       IN  ~Raised(kept) /\ Len(kept.rows) = 0

EmptyMatch ==
    [columns |-> <<>>, data |-> <<>>,
     message |-> "No data matches the specified conditions"]

\* C12: when the filter leaves zero rows the query returns the empty-match
\* result, which is no error, and calls no engine, whatever the privacy mode.
C12_EmptyMatchShortCircuits ==
    (QueryDone /\ FilterLeavesNoRows) =>
        /\ response = EmptyMatch
        /\ ~IsError(response)
        /\ engine_call = NoCall

\* a query in differential_privacy mode whose filter kept no row returned the
\* empty-match result
C12_Witness ==
    /\ QueryDone
    /\ FilterLeavesNoRows
    /\ privacy_mode = "differential_privacy"
    /\ response = EmptyMatch
    /\ engine_call = NoCall

(***************************************************************************)
(* QueryResource.post (app/api/routes.py)                                  *)
(*                                                                         *)
(* The request is its JSON body; a field of the body that is not there is  *)
(* Absent.  post calls execute_query, whose steps are the actions of       *)
(* SpecQuery.  The cache is what DataLoader._load_dataset finds by key.    *)
(***************************************************************************)
\* the datasets of the cache have at most MaxApiRows rows
MaxApiRows == 2

Absent == [absent |-> TRUE]
JsonNull == [null |-> TRUE]
DatasetKeys == {"d1", "d2"}
CachedKeys == {"d1"}

ApiCommands ==
    {<<TAB, CNAME("sex")>>,
     <<TAB, CNAME("sex"), CNAME("age")>>,
     <<TAB, CNAME("zip")>>,
     <<TAB>>,
     <<TAB, CNAME("sex"), IF_, COMP("age", ">", Number(5))>>,
     <<TAB, CNAME("sex"), IF_, COMP("sex", "<", Number(5))>>,
     <<TAB, CNAME("sex"), IF_, COMP("age", "==", Quoted("F"))>>}

\* request.get_json()
Requests ==
    {NoRequest} \cup
    [body : {"json"},
     dataset_key : {Absent, StrValue("")} \cup {StrValue(k) : k \in DatasetKeys},
     command : {Absent} \cup {[tokens |-> c] : c \in ApiCommands \cup {<<>>}},
     privacy_mode : {Absent, JsonNull, StrValue("suppression"),
                     StrValue("differential_privacy"), StrValue("none")}]

Caches ==
    {[k \in CachedKeys |-> d] : d \in {x \in Datasets : Len(x) <= MaxApiRows}}

\* data.get(field): None when the field is not there
Falsy(field) == field \in {Absent, JsonNull, StrValue(""), [tokens |-> <<>>]}
\* if not data
NoData(req) ==
    \/ req.body = "none"
    \/ req.dataset_key = Absent /\ req.command = Absent /\ req.privacy_mode = Absent

\* data.get('privacy_mode', 'suppression')
PrivacyModeOf(req) ==
    IF req.privacy_mode = Absent THEN StrValue("suppression") ELSE req.privacy_mode

ValidPrivacyModes == {StrValue("suppression"), StrValue("differential_privacy")}

\* api.abort(code, message): raises an HTTPException
Abort(code, message) ==
    [raise |-> "HTTPException", code |-> code, message |-> [message |-> message]]

NoException == [raise |-> "none"]

\* the checks of post before the dataset is loaded: what they raise
RequestCheck(req) ==
    IF NoData(req) THEN Abort(400, "No JSON data provided")
    ELSE IF Falsy(req.dataset_key) \/ Falsy(req.command)
    THEN Abort(400, "dataset_key and command are required")
    ELSE IF PrivacyModeOf(req) \notin ValidPrivacyModes
    THEN Abort(400, "privacy_mode must be either suppression or differential_privacy")
    ELSE NoException

\* the HTTP response of an abort that leaves post
Aborted(code, message) == [status |-> code, message |-> message]

\* except ValueError as e: api.abort(400, str(e))
\* except Exception as e: api.abort(500, 'Internal server error')
Except(e) ==
    IF e.raise = "ValueError" THEN Aborted(400, Str(e))
    ELSE Aborted(500, [message |-> "Internal server error"])

\* DataLoader._load_dataset
_load_dataset(dataset_key) ==
    IF dataset_key \notin DOMAIN cache
    THEN [raise |-> "ValueError", message |-> "Dataset {dataset_key} not found",
          dataset_key |-> dataset_key]
    ELSE [df |-> cache[dataset_key]]

\* marshal_with(query_response_model): the fields of the model, None for a
\* field the result does not have
Marshal(result) ==
    [f \in {"columns", "data", "row_count", "command"} |->
        IF f \in DOMAIN result THEN [value |-> result[f]] ELSE [none |-> TRUE]]

InitApi ==
    /\ SuppIdle /\ DPIdle /\ ParseIdle /\ QueryIdle /\ TableIdle
    /\ base_epsilon = DefaultBaseEpsilon /\ total_size = 0 /\ eps_calls = <<>>
    /\ api_pc = "start"
    /\ request \in Requests
    /\ cache \in Caches
    /\ http = NoResponse
    /\ LoaderIdle

\* lines 113-131: the JSON body and its checks
ApiCheckRequest ==
    /\ api_pc = "start"
    /\ LET e == RequestCheck(request)
       IN  IF e = NoException
           THEN api_pc' = "load" /\ http' = http
           ELSE api_pc' = "done" /\ http' = Except(e)
    /\ UNCHANGED <<request, cache, loaderVars>>
    /\ UNCHANGED <<supVars, epsVars, dpVars, parseVars, queryVars, tableVars>>

\* df = data_loader.get_dataset(dataset_key), and the call of execute_query
ApiLoadDataset ==
    /\ api_pc = "load"
    /\ LET loaded == _load_dataset(request.dataset_key.str)
       IN  IF Raised(loaded)
           THEN /\ api_pc' = "done" /\ http' = Except(loaded)
                /\ UNCHANGED <<parseVars, queryVars>>
           ELSE /\ api_pc' = "execute" /\ http' = http
                /\ dataset' = loaded.df
                /\ command' = request.command.tokens
                /\ privacy_mode' = PrivacyModeOf(request).str
                /\ q_pc' = "parse"
                /\ UNCHANGED <<parsed, filtered_df, engine_call, response>>
    /\ UNCHANGED <<request, cache, loaderVars>>
    /\ UNCHANGED <<supVars, epsVars, dpVars, tableVars>>

\* execute_query returned or raised
ApiReturn ==
    /\ api_pc = "execute"
    /\ q_pc = "done"
    /\ http' = IF "error" \in DOMAIN response
               THEN Except([raise |-> response.error, message |-> response.message,
                            str_e |-> response.str_e])
               ELSE [status |-> 200, body |-> Marshal(response)]
    /\ api_pc' = "done"
    /\ UNCHANGED <<request, cache, loaderVars>>
    /\ UNCHANGED <<supVars, epsVars, dpVars, parseVars, queryVars, tableVars>>

NextApi ==
    \/ ApiCheckRequest
    \/ ApiLoadDataset
    \/ QueryParse
    \/ QueryValidate
    \/ QueryFilter
    \/ QueryEmpty
    \/ QueryTabulate
    \/ ApiReturn

SpecApi == InitApi /\ [][NextApi]_vars

(***************************************************************************)
(* Properties of post.                                                     *)
(***************************************************************************)
ApiDone == api_pc = "done"
QueryRaised == "error" \in DOMAIN response

\* C13: a failure of the command (parse, unknown variable, validation) is
\* answered as a bad request, and an internal failure of the filter, the
\* table or the protection as an internal error whose message holds nothing
\* of the exception.
C13_TwoErrorCategories ==
    (ApiDone /\ QueryRaised) =>
        IF response.context = "ValueError"
        THEN http.status = 400
        ELSE http.status = 500 /\ "str_e" \notin DOMAIN http.message

\* the request names a dataset and a command, and a privacy mode that is none
\* of the two
BadPrivacyMode ==
    /\ ~NoData(request)
    /\ ~Falsy(request.dataset_key) /\ ~Falsy(request.command)
    /\ PrivacyModeOf(request) \notin ValidPrivacyModes

\* C14: a request with another privacy_mode is answered as a bad request and
\* execute_query is not called for it; a request without privacy_mode runs in
\* suppression mode.
C14_PrivacyModeValidated ==
    ApiDone =>
        /\ BadPrivacyMode => http.status = 400 /\ q_pc = "idle"
        /\ (request.body = "json" /\ request.privacy_mode = Absent /\ q_pc = "done")
                => privacy_mode = "suppression"

(***************************************************************************)
(* Properties of the filter.                                               *)
(***************************************************************************)
\* the condition is one comparison of a column with a literal of the other
\* type
MismatchedComparison(condition) ==
    /\ IsComparison(condition)
    /\ condition.variable \in AvailableColumns
    /\ ~SameType(dataset[1][condition.variable], condition.value)

\* C15: a comparison of a column with a literal of the other type matches no
\* row, whatever the operator, and the query does not fail: it ends with the
\* empty-match result.
C15_MismatchedTypeNeverMatches ==
    (/\ QueryDone /\ ParsedOk
     /\ validate_variables(parsed, AvailableColumns) = {}
     /\ MismatchedComparison(parsed.condition)) =>
        /\ ~IsError(response)
        /\ filtered_df = <<>>
        /\ response = EmptyMatch

(***************************************************************************)
(* create_frequency_table, two-way, of SuppressionEngine and of            *)
(* DifferentialPrivacyEngine: the cross-tabulation with margins, its       *)
(* protection, the long format and the filter of the margins.              *)
(***************************************************************************)
\* a variable has at most MaxCategories categories in the data
MaxCategories == 2

margins_name == "Total"

\* the categories of var1 and of var2 in the data, in the order pd.crosstab
\* sorts them
Var1Categories ==
    {<<"F">>, <<"F", "M">>, <<"F", "M", "O">>, <<"F", "Total">>, <<"Total">>}
Var2Categories ==
    {<<"N">>, <<"N", "S">>, <<"E", "N", "S">>, <<"N", "Total">>, <<"S", "Total">>}

\* the number of rows of the data with one pair of categories
TableCounts == {0, 3, 6}

\* the samples np.random.laplace returns for the cell (i, j), three ways
NoisePatterns == {1, 2, 3}
TableNoise(pattern, i, j) ==
    CASE pattern = 1 -> -10
      [] pattern = 2 -> 5
      [] pattern = 3 -> IF (i + j) % 2 = 0 THEN 2 ELSE -10

Labels(cats) == {cats[k] : k \in 1..Len(cats)}

\* apply_suppression as a whole
apply_suppression(t) ==
    FormatTable(_apply_complementary_suppression(_apply_primary_suppression(t)))

\* apply_differential_privacy as a whole, the samples given
apply_differential_privacy(t, columns, pattern) ==
    [i \in 1..NRows(t) |->
        [j \in 1..NCols(t) |->
            IF Skipped(columns[j]) THEN t[i][j]
            ELSE Int64(NoisyCount(to_numeric(t[i][j]).v, TableNoise(pattern, i, j)))]]

\* result.melt(id_vars=[var1], var_name=var2, value_name='freq'): column after
\* column, the rows of each in order
Melt(index, columns, t) ==
    [k \in 1..(Len(index) * Len(columns)) |->
        LET j == ((k - 1) \div Len(index)) + 1
            i == ((k - 1) % Len(index)) + 1
        IN  [var1 |-> index[i], var2 |-> columns[j], freq |-> t[i][j]]]

\* (result[var1] != 'Total') & (result[var2] != 'Total')
NotMargin(entry) == entry.var1 # margins_name /\ entry.var2 # margins_name

InitTable ==
    /\ SuppIdle /\ EpsIdle /\ DPIdle /\ ParseIdle /\ QueryIdle /\ ApiIdle
    /\ t_pc = "start"
    /\ t_engine \in {"suppression", "differential_privacy"}
    /\ t_cats \in {c \in Var1Categories \X Var2Categories :
                        Len(c[1]) <= MaxCategories /\ Len(c[2]) <= MaxCategories}
    /\ t_counts \in {inner \in [1..Len(t_cats[1]) -> [1..Len(t_cats[2]) -> TableCounts]] :
                        Observed(inner)}
    /\ t_noise \in IF t_engine = "suppression" THEN {0} ELSE NoisePatterns
    /\ t_index = <<>> /\ t_columns = <<>> /\ t_wide = <<>> /\ t_long = <<>>

\* pd.crosstab(df[var1], df[var2], margins=True, margins_name='Total'), which
\* raises ValueError when a category has the name of the margins
TableCrosstab ==
    /\ t_pc = "start"
    /\ IF margins_name \in Labels(t_cats[1]) \cup Labels(t_cats[2])
       THEN /\ t_long' = [raise |-> "ValueError",
                          message |-> "Conflicting name Total in margins"]
            /\ t_pc' = "done"
            /\ UNCHANGED <<t_index, t_columns, t_wide>>
       ELSE /\ t_index' = t_cats[1] \o <<margins_name>>
            /\ t_columns' = t_cats[2] \o <<margins_name>>
            /\ t_wide' = Crosstab(t_counts)
            /\ t_pc' = "protect"
            /\ UNCHANGED t_long
    /\ UNCHANGED <<t_engine, t_cats, t_counts, t_noise>>
    /\ UNCHANGED <<supVars, epsVars, dpVars, parseVars, queryVars, apiVars>>

\* self.apply_suppression(crosstab) / self.apply_differential_privacy(crosstab, ...)
TableProtect ==
    /\ t_pc = "protect"
    /\ t_wide' = IF t_engine = "suppression" THEN apply_suppression(t_wide)
                 ELSE apply_differential_privacy(t_wide, t_columns, t_noise)
    /\ t_pc' = "melt"
    /\ UNCHANGED <<t_engine, t_cats, t_counts, t_noise, t_index, t_columns, t_long>>
    /\ UNCHANGED <<supVars, epsVars, dpVars, parseVars, queryVars, apiVars>>

\* reset_index() and melt(...)
TableMelt ==
    /\ t_pc = "melt"
    /\ t_long' = [rows |-> Melt(t_index, t_columns, t_wide)]
    /\ t_pc' = "filter"
    /\ UNCHANGED <<t_engine, t_cats, t_counts, t_noise, t_index, t_columns, t_wide>>
    /\ UNCHANGED <<supVars, epsVars, dpVars, parseVars, queryVars, apiVars>>

\* the filter of the margins, reset_index(drop=True), return result
TableFilter ==
    /\ t_pc = "filter"
    /\ t_long' = [rows |-> SelectSeq(t_long.rows, NotMargin)]
    /\ t_pc' = "done"
    /\ UNCHANGED <<t_engine, t_cats, t_counts, t_noise, t_index, t_columns, t_wide>>
    /\ UNCHANGED <<supVars, epsVars, dpVars, parseVars, queryVars, apiVars>>

NextTable ==
    \/ TableCrosstab
    \/ TableProtect
    \/ TableMelt
    \/ TableFilter

SpecTable == InitTable /\ [][NextTable]_vars

(***************************************************************************)
(* Properties of the two-way create_frequency_table.                       *)
(***************************************************************************)
TableDone == t_pc = "done"

EntriesOf(r, c) ==
    {k \in 1..Len(t_long.rows) : t_long.rows[k].var1 = r /\ t_long.rows[k].var2 = c}

\* C16: the result of a two-way table holds one entry for every pair of a
\* category of var1 and a category of var2 in the data, and nothing else (no
\* entry of a margin), in either engine.
C16_ExactlyNonMarginCells ==
    TableDone =>
        /\ ~Raised(t_long)
        /\ \A r \in Labels(t_cats[1]) : \A c \in Labels(t_cats[2]) :
                Cardinality(EntriesOf(r, c)) = 1
        /\ Len(t_long.rows) = Len(t_cats[1]) * Len(t_cats[2])

\* where no category has the name of the margins the result is exactly the
\* cells of the pairs of categories
NonMarginCellsUnlessNamedTotal ==
    (TableDone /\ margins_name \notin Labels(t_cats[1]) \cup Labels(t_cats[2])) =>
        /\ ~Raised(t_long)
        /\ \A r \in Labels(t_cats[1]) : \A c \in Labels(t_cats[2]) :
                Cardinality(EntriesOf(r, c)) = 1
        /\ Len(t_long.rows) = Len(t_cats[1]) * Len(t_cats[2])

(***************************************************************************)
(* The filter on the condition trees of the parser: execute_query on       *)
(* commands "tab sex if ..." with up to MaxFilterOperands comparisons.     *)
(***************************************************************************)
MaxFilterOperands == 3

FilterComparisons ==
    {COMP("sex", "==", Quoted("F")), COMP("age", ">", Number(5)),
     COMP("age", "<=", Number(1)), COMP("sex", "<", Number(5))}

FilterCommands ==
    {c \in ValidCommands({"sex"}, FilterComparisons, MaxFilterOperands) :
        NVariables(c) = 1 /\ Len(c) > 2}

InitFilter ==
    /\ SuppIdle /\ DPIdle /\ ApiIdle /\ TableIdle
    /\ base_epsilon = DefaultBaseEpsilon /\ total_size = 0 /\ eps_calls = <<>>
    /\ command \in FilterCommands
    /\ parsed = NotParsed
    /\ q_pc = "parse"
    /\ dataset \in {d \in Datasets : Len(d) <= 3}
    /\ privacy_mode \in {"suppression", "differential_privacy"}
    /\ filtered_df = <<>>
    /\ engine_call = NoCall
    /\ response = NoResponse

SpecFilter == InitFilter /\ [][NextQuery]_vars

\* a row satisfies a condition tree: a comparison by the comparison of its
\* cell, & as and, | as or
RECURSIVE Satisfies(_, _)
Satisfies(row, node) ==
    IF IsComparison(node)
    THEN CompareCell(row[node.variable], node.operator, node.value)
    ELSE IF node.operator = "&"
    THEN Satisfies(row, node.left) /\ Satisfies(row, node.right)
    ELSE Satisfies(row, node.left) \/ Satisfies(row, node.right)

\* a row satisfies the condition as written, & binding tighter than |
SatisfiesWritten(row, tokens) ==
    LET alternatives == SplitOn(SubSeq(tokens, 4, Len(tokens)), "|")
    IN  \E k \in 1..Len(alternatives) :
            LET factors == SplitOn(alternatives[k], "&")
            IN  \A l \in 1..Len(factors) :
                    LET c == comparison(factors[l][1])
                    IN  CompareCell(row[c.variable], c.operator, c.value)

\* a comparison of the tree raises on the dataset
SomeLeafRaises(node) ==
    \E k \in 1..Len(Leaves(node)) :
        LET c == Leaves(node)[k]
        IN  ComparisonRaises(dataset, c.variable, c.operator, c.value)

Filtered == q_pc \in {"tabulate", "done"} /\ ParsedOk /\ parsed.condition # NoCondition

VisibleCells(line) == {k \in 1..Len(line) : ~line[k].na}
SuppressedCells(line) == {k \in 1..Len(line) : line[k].na}

\* p is the second-smallest visible cell of the line: one visible cell comes
\* before it in ascending order of the counts, equal counts in the order of
\* their positions
SecondSmallest(line, p) ==
    /\ p \in VisibleCells(line)
    /\ Cardinality({q \in VisibleCells(line) :
            \/ line[q].v < line[p].v
            \/ line[q].v = line[p].v /\ q < p}) = 1

CellsChanged(before, after) == {k \in 1..Len(before) : before[k] # after[k]}

\* the rule is due on a line with one suppressed and two or more visible cells
RuleDue(line) ==
    Cardinality(SuppressedCells(line)) = 1 /\ Cardinality(VisibleCells(line)) >= 2

\* the pass that took the line from before to after did to it what the rule
\* says of a line in the state seen
RuleApplied(seen, before, after) ==
    IF RuleDue(seen)
    THEN \E p \in 1..Len(seen) :
            /\ SecondSmallest(seen, p)
            /\ CellsChanged(before, after) = {p}
            /\ after[p].na
    ELSE after = before

RowsSwept == sup_pc \in {"rows", "columns", "done"}
ColumnsSwept == sup_pc \in {"columns", "done"}

\* C18 as stated: the row pass and the column pass both act on the state
\* primary suppression left: a line with one suppressed cell and two or more
\* visible cells in that state gets its second-smallest visible cell
\* suppressed by its own pass, any other line nothing.
C18_BothPassesOnPrimaryState ==
    /\ RowsSwept =>
            \A i \in 1..NRows(after_primary) :
                RuleApplied(after_primary[i], after_primary[i], after_rows[i])
    /\ ColumnsSwept =>
            \A j \in 1..NCols(after_primary) :
                RuleApplied(Column(after_primary, j), Column(after_rows, j),
                            Column(numeric_df, j))

\* C18, amended: the row pass acts on the state primary suppression left, the
\* column pass on the state the row pass left.
C18_ColumnPassOnRowPassState ==
    /\ RowsSwept =>
            \A i \in 1..NRows(after_primary) :
                RuleApplied(after_primary[i], after_primary[i], after_rows[i])
    /\ ColumnsSwept =>
            \A j \in 1..NCols(after_rows) :
                RuleApplied(Column(after_rows, j), Column(after_rows, j),
                            Column(numeric_df, j))

\* a row with one suppressed cell after primary suppression and two equal
\* smallest visible cells got the later of the two suppressed, and a column
\* without a suppressed cell after primary suppression got a cell suppressed
\* by the column pass
C18_Witness ==
    /\ ColumnsSwept
    /\ \E i \in 1..NRows(after_primary) : \E p, q \in 1..NCols(after_primary) :
            /\ RuleDue(after_primary[i])
            /\ q < p
            /\ ~after_primary[i][q].na /\ ~after_primary[i][p].na
            /\ after_primary[i][q].v = after_primary[i][p].v
            /\ ~after_rows[i][q].na /\ after_rows[i][p].na
    /\ \E j \in 1..NCols(after_primary) :
            /\ SuppressedCells(Column(after_primary, j)) = {}
            /\ CellsChanged(Column(after_rows, j), Column(numeric_df, j)) # {}


\* the steps of one call of apply_suppression, and the next call
SweepOrder ==
    {<<"start", "primary">>, <<"primary", "rows">>, <<"rows", "columns">>,
     <<"columns", "done">>, <<"done", "start">>}

NewlySuppressed(before, after) ==
    {k \in 1..Len(before) : ~before[k].na /\ after[k].na}

\* every cell is as it was or was visible and is suppressed now
OnlyAdds(before, after) ==
    \A i \in 1..NRows(before) : \A j \in 1..NCols(before) :
        \/ after[i][j] = before[i][j]
        \/ ~before[i][j].na /\ after[i][j].na

\* at most one cell of the line was suppressed, and none unless the line had
\* exactly one suppressed cell
OnePerLine(before, after) ==
    /\ Cardinality(NewlySuppressed(before, after)) <= 1
    /\ NewlySuppressed(before, after) # {} => RuleDue(before)

SweepStep ==
    /\ sup_pc' # sup_pc => <<sup_pc, sup_pc'>> \in SweepOrder
    /\ sup_pc = "primary" /\ sup_pc' = "rows" =>
            /\ OnlyAdds(numeric_df, numeric_df')
            /\ \A i \in 1..NRows(numeric_df) :
                    OnePerLine(numeric_df[i], numeric_df'[i])
    /\ sup_pc = "rows" /\ sup_pc' = "columns" =>
            /\ OnlyAdds(numeric_df, numeric_df')
            /\ \A j \in 1..NCols(numeric_df) :
                    OnePerLine(Column(numeric_df, j), Column(numeric_df', j))
    /\ sup_pc = "columns" =>
            /\ sup_pc' \in {"columns", "done"}
            /\ numeric_df' = numeric_df
            /\ sup_pc' = "done" =>
                    \A i \in 1..NRows(numeric_df) : \A j \in 1..NCols(numeric_df) :
                        (result_df'[i][j] = suppression_value) <=> numeric_df[i][j].na

\* C19: one call of apply_suppression runs primary suppression, the row pass,
\* the column pass and the formatting once each and in this order; the table
\* the column pass leaves is the table returned, with no further pass; each
\* pass only suppresses cells that were visible, at most one per row in the
\* row pass and at most one per column in the column pass, each in a line
\* that had exactly one suppressed cell, and changes no other cell.
C19_SingleSequentialSweep == [][SweepStep]_vars

\* the table returned at the first call holds a row with exactly one
\* suppressed cell and two or more visible cells: the row pass found no
\* suppressed cell in it, and the column pass suppressed one
C19_Witness ==
    /\ sup_pc = "done"
    /\ application = 1
    /\ \E i \in 1..NRows(numeric_df) :
            /\ SuppressedCells(after_rows[i]) = {}
            /\ RuleDue(numeric_df[i])
            /\ \E j \in 1..NCols(numeric_df) : result_df[i][j] = suppression_value


(***************************************************************************)
(* The engine behind a response of execute_query.                          *)
(***************************************************************************)
\* a response with the cells of a frequency table
TableReturned ==
    /\ QueryDone
    /\ ~IsError(response)
    /\ "message" \notin DOMAIN response

\* C20: every response with a frequency table was made by one call of one
\* engine on the filtered rows: of the differential-privacy engine when
\* privacy_mode is "differential_privacy", of the suppression engine for any
\* other privacy_mode; no call means no table.
C20_OneEngineBehindEveryTable ==
    /\ TableReturned =>
            /\ engine_call # NoCall
            /\ engine_call.engine =
                    IF privacy_mode = "differential_privacy"
                    THEN "differential_privacy" ELSE "suppression"
            /\ engine_call.var1 = parsed.variable1
            /\ engine_call.var2 = parsed.variable2
    /\ (QueryDone /\ ~TableReturned) => engine_call = NoCall

\* a table returned for a privacy_mode that names no engine
C20_Witness ==
    /\ TableReturned
    /\ privacy_mode \notin {"differential_privacy", "suppression"}
    /\ engine_call.engine = "suppression"
    /\ response.row_count > 0


(***************************************************************************)
(* DataLoader (app/utils/data_loader.py)                                   *)
(*                                                                         *)
(* The cache is the set of pickle files of the cache directory, by dataset *)
(* key; it is empty when the first call is made.  An uploaded file is its  *)
(* name, whether it is larger than 1GB, and the rows read_csv reads from   *)
(* it.  A request to /query may arrive once, at any time between the calls.*)
(***************************************************************************)
\* an uploaded file has at most MaxLoaderRows rows
MaxLoaderRows == 2
\* at most MaxLoaderOps calls write to the cache or clear it
MaxLoaderOps == 2

LoaderDatasets ==
    {d \in Datasets : Len(d) <= MaxLoaderRows /\ d[1] = RowKinds[1]}

\* file.filename: a directory part, a stem and an extension
FileNames ==
    {[dir |-> "", stem |-> "a", ext |-> ".csv"],
     [dir |-> "../", stem |-> "a", ext |-> ".csv"],
     [dir |-> "", stem |-> "b", ext |-> ".TXT"],
     [dir |-> "", stem |-> "notes", ext |-> ".pdf"]}

UploadFiles ==
    [filename : FileNames, too_large : {FALSE}, rows : LoaderDatasets \cup {<<>>}]
    \cup [filename : {[dir |-> "", stem |-> "a", ext |-> ".csv"]},
          too_large : {TRUE}, rows : {<<RowKinds[1]>>}]

\* werkzeug's secure_filename: the name without its directory part
secure_filename(name) == name.stem \o name.ext

\* filename.lower()
Lower(ext) == IF ext = ".TXT" THEN ".txt" ELSE ext

\* hash(filename): one integer for a name, the same at every call
Hash(filename) ==
    CASE filename = "a.csv" -> 7301
      [] filename = "b.TXT" -> -5512
      [] OTHER -> 1

\* f"dataset_{len(df)}_{hash(filename)}"
DatasetKey(frame, filename) ==
    "dataset_" \o ToString(Len(frame)) \o "_" \o ToString(Hash(filename))

DemoKey == "synthetic_injuries_demo"
\* the rows of data/synthetic_injuries_100k.txt
DemoDataset == <<RowKinds[2], RowKinds[3]>>

\* a dataset cached under a key stays the one cached first
_cache_dataset_KeepFirst(files, dataset_key, frame) ==
    [k \in DOMAIN files \cup {dataset_key} |->
        IF k \in DOMAIN files THEN files[k] ELSE frame]

\* pickle.dump(df, f) to the file of the key: the file is made or overwritten
_cache_dataset(files, dataset_key, frame) ==
    [k \in DOMAIN files \cup {dataset_key} |->
        IF k = dataset_key THEN frame ELSE files[k]]

\* upload_dataset up to the key: what it raises, or the key and the dataset
upload_dataset(file) ==
    IF file.too_large
    THEN [raise |-> "ValueError", message |-> "File size exceeds 1GB limit"]
    ELSE LET filename == secure_filename(file.filename)
         IN  IF Lower(file.filename.ext) \notin {".csv", ".txt"}
             THEN [raise |-> "ValueError",
                   message |-> "Only CSV and TXT files are supported"]
             ELSE IF DataFrameEmpty(file.rows)
             THEN [raise |-> "ValueError", message |-> "CSV file is empty"]
             ELSE [dataset_key |-> DatasetKey(file.rows, filename), df |-> file.rows]

\* the keys asked for: the keys of the uploads, of the demo, and one of neither
LoaderKeys ==
    {upload_dataset(f).dataset_key : f \in {u \in UploadFiles : ~Raised(upload_dataset(u))}}
    \cup {DemoKey, "dataset_0_0"}

\* the dictionary upload_dataset and load_demo_injuries_dataset return
Loaded(dataset_key, frame) ==
    [dataset_key |-> dataset_key, row_count |-> Len(frame),
     column_count |-> Len(QueryColumns)]

\* the requests to /query
LoaderRequests ==
    [body : {"json"},
     dataset_key : {StrValue(DatasetKey(d, "a.csv")) : d \in LoaderDatasets},
     command : {[tokens |-> <<TAB, CNAME("sex")>>],
                [tokens |-> <<TAB, CNAME("sex"), IF_, COMP("age", ">", Number(5))>>]},
     privacy_mode : {StrValue("suppression")}]

InitLoader ==
    /\ SuppIdle /\ DPIdle /\ ParseIdle /\ QueryIdle /\ TableIdle
    /\ base_epsilon = DefaultBaseEpsilon /\ total_size = 0 /\ eps_calls = <<>>
    /\ api_pc = "idle"
    /\ request = NoRequest
    /\ cache = NoCache
    /\ http = NoResponse
    /\ LoaderIdle

UploadDataset ==
    /\ Len(cache_log) < MaxLoaderOps
    /\ \E file \in UploadFiles :
        LET r == upload_dataset(file)
        IN  IF Raised(r)
            THEN /\ loader_result' = [call |-> "upload_dataset", result |-> r]
                 /\ UNCHANGED <<cache, current_dataset_key, current_dataset,
                                cache_log>>
            ELSE /\ cache' = _cache_dataset(cache, r.dataset_key, r.df)
                 /\ current_dataset_key' = r.dataset_key
                 /\ current_dataset' = r.df
                 /\ loader_result' = [call |-> "upload_dataset",
                                      result |-> Loaded(r.dataset_key, r.df)]
                 /\ cache_log' = Append(cache_log,
                        [call |-> "upload_dataset",
                         dataset_key |-> r.dataset_key, df |-> file.rows])
    /\ UNCHANGED <<api_pc, request, http>>
    /\ UNCHANGED <<supVars, epsVars, dpVars, parseVars, queryVars, tableVars>>

LoadDemoInjuriesDataset ==
    /\ Len(cache_log) < MaxLoaderOps
    /\ \E exists \in BOOLEAN :
        IF ~exists
        THEN /\ loader_result' = [call |-> "load_demo_injuries_dataset",
                    result |-> [raise |-> "FileNotFoundError",
                                message |-> "Demo dataset not found at {demo_path}"]]
             /\ UNCHANGED <<cache, current_dataset_key, current_dataset, cache_log>>
        ELSE /\ cache' = _cache_dataset(cache, DemoKey, DemoDataset)
             /\ current_dataset_key' = DemoKey
             /\ current_dataset' = DemoDataset
             /\ loader_result' = [call |-> "load_demo_injuries_dataset",
                                  result |-> Loaded(DemoKey, DemoDataset)]
             /\ cache_log' = Append(cache_log,
                    [call |-> "load_demo_injuries_dataset",
                     dataset_key |-> DemoKey, df |-> DemoDataset])
    /\ UNCHANGED <<api_pc, request, http>>
    /\ UNCHANGED <<supVars, epsVars, dpVars, parseVars, queryVars, tableVars>>

\* every .pkl file of the cache directory is removed
ClearCache ==
    /\ Len(cache_log) < MaxLoaderOps
    /\ cache' = NoCache
    /\ current_dataset' = PyNone
    /\ current_dataset_key' = PyNone
    /\ loader_result' = [call |-> "clear_cache", result |-> PyNone]
    /\ cache_log' = Append(cache_log, [call |-> "clear_cache"])
    /\ UNCHANGED <<api_pc, request, http>>
    /\ UNCHANGED <<supVars, epsVars, dpVars, parseVars, queryVars, tableVars>>

GetDataset ==
    /\ \E dataset_key \in LoaderKeys :
        loader_result' = [call |-> "get_dataset", dataset_key |-> dataset_key,
                          result |-> _load_dataset(dataset_key)]
    /\ UNCHANGED <<cache, current_dataset_key, current_dataset, cache_log>>
    /\ UNCHANGED <<api_pc, request, http>>
    /\ UNCHANGED <<supVars, epsVars, dpVars, parseVars, queryVars, tableVars>>

\* a request to /query arrives
LoaderPost ==
    /\ api_pc = "idle"
    /\ request' \in LoaderRequests
    /\ api_pc' = "start"
    /\ UNCHANGED <<cache, http, loaderVars>>
    /\ UNCHANGED <<supVars, epsVars, dpVars, parseVars, queryVars, tableVars>>

NextLoader ==
    \/ UploadDataset
    \/ LoadDemoInjuriesDataset
    \/ ClearCache
    \/ GetDataset
    \/ LoaderPost
    \/ NextApi

SpecLoader == InitLoader /\ [][NextLoader]_vars

(***************************************************************************)
(* Properties of the DataLoader.                                           *)
(***************************************************************************)
\* the dataset of the last call that cached one under the key, if there is
\* one and no clear_cache came after it
RECURSIVE LastCached(_, _)
LastCached(log, dataset_key) ==
    IF log = <<>> THEN [found |-> FALSE]
    ELSE LET last == log[Len(log)]
         IN  IF last.call = "clear_cache" THEN [found |-> FALSE]
             ELSE IF last.dataset_key = dataset_key
             THEN [found |-> TRUE, df |-> last.df]
             ELSE LastCached(SubSeq(log, 1, Len(log) - 1), dataset_key)

\* what get_dataset gave is the dataset expected, or a not-found error
GivesLastCached(result, dataset_key) ==
    LET expected == LastCached(cache_log, dataset_key)
    IN  IF expected.found
        THEN result = [df |-> expected.df]
        ELSE /\ Raised(result)
             /\ result.raise = "ValueError"
             /\ result.message = "Dataset {dataset_key} not found"
             /\ result.dataset_key = dataset_key

GetDatasetGivesLastCached ==
    /\ \A k \in LoaderKeys : GivesLastCached(_load_dataset(k), k)
    /\ ("call" \in DOMAIN loader_result /\ loader_result.call = "get_dataset") =>
            GivesLastCached(loader_result.result, loader_result.dataset_key)

\* the steps of post and of execute_query: the dataset of the query is the
\* one get_dataset gives, and the cache is left as it is
QueryStep ==
    /\ (api_pc' # api_pc \/ q_pc' # q_pc) => cache' = cache /\ cache_log' = cache_log
    /\ api_pc = "load" /\ api_pc' # api_pc =>
            LET expected == LastCached(cache_log, request.dataset_key.str)
            IN  IF expected.found
                THEN api_pc' = "execute" /\ dataset' = expected.df
                ELSE api_pc' = "done" /\ http'.status = 400

====
